---------------------------- MODULE Spec2Model ----------------------------
(***************************************************************************)
(* Model of the backend of imteek/opo:                                     *)
(*   backend/tsne_service.py    POST /api/tsne/<city>       (generate_tsne) *)
(*   backend/reference_data.py  GET  /api/reference-data/<city>             *)
(*                                                                         *)
(* Conventions.                                                            *)
(*  - A Python/JSON/pandas value is a record [t, n, s]: t is the type tag, *)
(*    n the number it carries, s the text it carries.  A finite float is   *)
(*    carried in tenths (n = 12 is 1.2).                                   *)
(*  - A dict is a function from field names to values; a key that is not   *)
(*    in its DOMAIN is a missing key.                                      *)
(*  - Python indices are 0-based: At(X, i) is X[i] of the source.          *)
(*  - The cap on the matrix (5000 rows) and the cap on the perplexity (30) *)
(*    are scaled down to max_points and perplexity_cap.                    *)
(***************************************************************************)
EXTENDS Integers, Sequences, FiniteSets, TLC

VARIABLES
    disk,        \* the data directory: file name -> [ok, rows]
    tsne_cache,  \* tsne_service.tsne_cache: cache key -> response body
    last,        \* what the latest generate_tsne call did and returned
    succeeded,   \* history: (city, record id) -> the first 200 body it was sent
    asm,         \* matrix assembly on its own: the inputs and the outcome
    smp,         \* the sampling step on its own: the input and the outcome
    ref,         \* reference_data: directory listing, request and response
    thr,         \* concurrent generate_tsne calls: one record per thread
    wlog         \* history: the writes to tsne_cache, in order

vars == <<disk, tsne_cache, last, succeeded, asm, smp, ref, thr, wlog>>

----------------------------------------------------------------------------
(* Bounds of the model.                                                    *)

\* scaled stand-in for max_points = 5000 (tsne_service.py:73)
max_points == 3
\* scaled stand-in for the 30 of min(30, len(X_np) - 1) (tsne_service.py:82)
perplexity_cap == 1
\* number of concurrent requests in the concurrent specification
NThreads == 2

\* largest dataset on disk: with the target row, one row past the cap
MaxRows == max_points

----------------------------------------------------------------------------
(* Values.                                                                 *)

JNull == [t |-> "null", n |-> 0, s |-> ""]
JList == [t |-> "list", n |-> 0, s |-> ""]
JInt(k) == [t |-> "int", n |-> k, s |-> ""]
\* a JSON integer whose magnitude is beyond the largest double, e.g. 10**400
JBigInt == [t |-> "bigint", n |-> 0, s |-> ""]
JStr(x) == [t |-> "str", n |-> 0, s |-> x]
\* a finite float, in tenths
JFloat(k) == [t |-> "float", n |-> k, s |-> ""]
JNaN == [t |-> "nan", n |-> 0, s |-> ""]
JInf == [t |-> "inf", n |-> 0, s |-> ""]
\* sys.float_info.max, what numpy.nan_to_num puts in place of +inf
JFloatMax == [t |-> "floatmax", n |-> 0, s |-> ""]

IsFinite(v) == v.t \in {"float", "floatmax"}

\* dict.get(key, default)
Get(d, key, default) == IF key \in DOMAIN d THEN d[key] ELSE default

\* X[i] with a 0-based index
At(X, i) == X[i + 1]

Min(a, b) == IF a <= b THEN a ELSE b

----------------------------------------------------------------------------
(* float(value), tsne_service.py:45 and :57.                               *)

\* float("..."): the literals the datasets and the requests of the model use
ParseFloat(x) ==
    CASE x = "1.2" -> [exc |-> "none", val |-> JFloat(12)]
      [] x = "55"  -> [exc |-> "none", val |-> JFloat(550)]
      [] x = "1"   -> [exc |-> "none", val |-> JFloat(10)]
      [] x = "nan" -> [exc |-> "none", val |-> JNaN]
      [] x = "1e999" -> [exc |-> "none", val |-> JInf]
      [] OTHER     -> [exc |-> "ValueError", val |-> JNull]

PyFloat(v) ==
    CASE v.t = "int"    -> [exc |-> "none", val |-> JFloat(10 * v.n)]
      [] v.t = "float"  -> [exc |-> "none", val |-> v]
      [] v.t = "nan"    -> [exc |-> "none", val |-> v]
      [] v.t = "inf"    -> [exc |-> "none", val |-> v]
      [] v.t = "str"    -> ParseFloat(v.s)
      [] v.t = "bigint" -> [exc |-> "OverflowError", val |-> JNull]
      [] OTHER          -> [exc |-> "TypeError", val |-> JNull]

\* try: value = float(value)  except (ValueError, TypeError): value = 0
CoerceCaught(e) == e \in {"ValueError", "TypeError"}

\* r is what float(value) did: the except clause turns a caught exception
\* into the value 0 and lets any other exception through
Except(r) ==
    IF r.exc = "none" THEN r
    ELSE IF CoerceCaught(r.exc) THEN [exc |-> "none", val |-> JInt(0)]
    ELSE r

Coerce(v) == Except(PyFloat(v))

----------------------------------------------------------------------------
(* get_important_features, tsne_service.py:109-131.                        *)

feature_map ==
    [Baltimore |->
        <<"PTR_SEQUENCE_NUM", "CREAT_DON", "DAYSQAIT_ALLOC", "time_on_analysis",
          "KDPI", "AGE_DON", "HGT_CM_CALC", "MICRO_FAT_LI_DON", "BUN_DON",
          "DIURETICS_N", "KIL_BACK_TBL_FLUSH", "INIT_EPTS", "DAYSWAIT_CHRON",
          "NUM_ORG_DISC", "END_CPRA", "PO2_DON", "KIP_REASON_CD",
          "time_since_gfr_less_than_20", "REGION_IDENTICAL", "LENGTH_LEFT_LUNG">>,
     Boston |->
        <<"PTR_SEQUENCE_NUM", "time_on_dialysis", "DAYSWAIT_ALLOC", "KDPI",
          "PUMP_KI_N", "KIR_FINAL_FLUSH", "KIR_REASON_CD",
          "time_since_gfr_less_than_20", "DAYSWAIT_CHRON", "LENGTH_LEFT_LUNG",
          "AGE_DON", "PO2_DON", "CREAT_DON", "WGT_KG_DON_CALC", "BMI_DON_CALC",
          "INIT_EPTS", "BUN_DON", "CREAT_TRR", "PRI_PAYMENT_TRR_KI", "PH_DON">>,
     LA |->
        <<"PTR_SEQUENCE_NUM", "DAYSWAIT_ALLOC", "time_on_dialysis", "KDPI",
          "KIR_REASON_CD", "CREAT_DON", "CREAT_TRR", "C1_0", "NUM_ORG_DISC",
          "LENGTH_LEFT_LUNG", "SEPTAL_WALL", "CARDARREST_DOWNTM_DURATION",
          "BMI_CALC", "DAYSWAIT_CHRON", "SHARE_TY_Local", "PH_DON",
          "HGT_CM_CALC", "INIT_EPTS", "AGE_DON", "MEETS_DBL_KI_CRITERIA">>]

get_important_features(city) == Get(feature_map, city, <<>>)

----------------------------------------------------------------------------
(* load_city_data, tsne_service.py:133-166.                                *)

city_file_map ==
    [Baltimore |-> "data/baltimore_reference.csv",
     LA        |-> "data/la_reference.csv",
     Boston    |-> "data/boston_reference.csv"]

\* the records of the file, or [] when the city has no file, the file does
\* not exist, or pandas raises on it
load_city_data(city, dsk) ==
    IF city \notin DOMAIN city_file_map THEN <<>>
    ELSE LET file_path == city_file_map[city] IN
         IF file_path \notin DOMAIN dsk THEN <<>>
         ELSE IF ~dsk[file_path].ok THEN <<>>
         ELSE dsk[file_path].rows

----------------------------------------------------------------------------
(* Matrix assembly, tsne_service.py:39-70.                                 *)

\* one pass of the per-feature loop over a record: the coercion of every
\* feature, in feature-list order
FeatureLoop(record, features) ==
    [i \in 1..Len(features) |-> Coerce(Get(record, features[i], JInt(0)))]

\* the first exception a loop lets through, "none" when there is none
Raised(loop) ==
    IF \A i \in 1..Len(loop) : loop[i].exc = "none" THEN "none"
    ELSE loop[CHOOSE i \in 1..Len(loop) :
                 /\ loop[i].exc # "none"
                 /\ \A j \in 1..(i - 1) : loop[j].exc = "none"].exc

Values(loop) == [i \in 1..Len(loop) |-> loop[i].val]

\* np.array(X_combined): the int 0 of a failed conversion becomes 0.0
NpArray(X) ==
    [r \in 1..Len(X) |->
        [i \in 1..Len(X[r]) |->
            IF X[r][i].t = "int" THEN JFloat(10 * X[r][i].n) ELSE X[r][i]]]

\* np.nan_to_num: NaN -> 0.0, +inf -> the largest finite float
NanToNumCell(v) ==
    CASE v.t = "nan" -> JFloat(0)
      [] v.t = "inf" -> JFloatMax
      [] OTHER       -> v

nan_to_num(X) ==
    [r \in 1..Len(X) |-> [i \in 1..Len(X[r]) |-> NanToNumCell(X[r][i])]]

\* the loops of lines 40-48 and 51-61, in the order they run: the target
\* record first, then the records of the dataset in file order
Loops(target_record, city_data, features) ==
    <<FeatureLoop(target_record, features)>>
        \o [r \in 1..Len(city_data) |-> FeatureLoop(city_data[r], features)]

\* the first exception any of the loops lets through
RaisedIn(loops) == Raised([r \in 1..Len(loops) |-> [exc |-> Raised(loops[r])]])

\* lines 63-70 on the loops' values: X_combined, np.array, np.nan_to_num
Combine(loops) == nan_to_num(NpArray([r \in 1..Len(loops) |-> Values(loops[r])]))

AssembleLoops(loops) ==
    IF RaisedIn(loops) # "none" THEN [exc |-> RaisedIn(loops), X_np |-> <<>>]
    ELSE [exc |-> "none", X_np |-> Combine(loops)]

\* lines 39-70: [exc, X_np]; exc is the exception that escapes, if any
Assemble(target_record, city_data, features) ==
    AssembleLoops(Loops(target_record, city_data, features))

----------------------------------------------------------------------------
(* Sampling, tsne_service.py:72-79.                                        *)

\* mutant of RandomChoice: the draw is made with replacement
RandomChoiceWithReplacement(a, size) == [1..size -> 0..(a - 1)]

\* np.random.choice(a, size, replace=False): every sequence of size pairwise
\* distinct numbers of 0..a-1 is a possible draw
RandomChoice(a, size) ==
    {q \in [1..size -> 0..(a - 1)] :
        \A i, j \in 1..size : i # j => q[i] # q[j]}

\* the draws line 77 can make for a matrix of n rows, already shifted by + 1
DrawnIndices(n) ==
    {[i \in 1..Len(q) |-> q[i] + 1] :
        q \in RandomChoice(n - 1, Min(max_points - 1, n - 1))}

\* mutant of WithTarget: the target index is appended after the drawn ones
WithTargetLast(indices) == indices \o <<0>>

\* np.append([0], indices)
WithTarget(indices) == <<0>> \o indices

\* X_np[indices]
TakeRows(X, indices) == [i \in 1..Len(indices) |-> At(X, indices[i])]

\* mutant of NeedsSampling: the cap is compared off by one
NeedsSamplingLate(X) == Len(X) > max_points + 1

NeedsSampling(X) == Len(X) > max_points

\* the draws open to the sampling step for X: a single empty draw when the
\* step is skipped
Draws(X) == IF NeedsSampling(X) THEN DrawnIndices(Len(X)) ELSE {<<>>}

Sample(X, drawn) ==
    IF NeedsSampling(X) THEN TakeRows(X, WithTarget(drawn)) ELSE X

----------------------------------------------------------------------------
(* Projection, tsne_service.py:81-90.                                      *)

Perplexity(X) == Min(perplexity_cap, Len(X) - 1)

\* TSNE(n_components=2, perplexity, random_state=42).fit_transform(X).tolist()
\* The library is external: a point is the image of the row it stands for,
\* and the library rejects a perplexity that is not in 1..n_samples-1.
fit_transform(X, perplexity) ==
    IF perplexity < 1 \/ perplexity >= Len(X)
    THEN [exc |-> "ValueError", coordinates |-> <<>>]
    ELSE [exc |-> "none",
          coordinates |-> [i \in 1..Len(X) |-> [image_of |-> X[i]]]]

----------------------------------------------------------------------------
(* generate_tsne, tsne_service.py:13-107.                                  *)

\* str(record_id) inside the f-string of line 21
Str(v) ==
    CASE v.t = "str"  -> v.s
      [] v.t = "int"  -> ToString(v.n)
      [] v.t = "null" -> "None"
      [] OTHER        -> "<" \o v.t \o ">"

\* line 18: target_record.get('PTR_SEQUENCE_NUM', 'unknown')
RecordId(target_record) == Get(target_record, "PTR_SEQUENCE_NUM", JStr("unknown"))

\* line 21: cache_key = f"{city}_{record_id}"
CacheKey(city, record_id) == city \o "_" \o Str(record_id)

\* lines 93-96
Response(coordinates, record_id) ==
    [coordinates |-> coordinates, recordId |-> record_id]

\* mutant of Store: the response is returned but never cached
StoreNothing(cache, cache_key, response) == cache

\* mutant of Store: the coordinates are written into an entry that exists
\* already, field by field, and its recordId is left as it was
StoreTorn(cache, cache_key, response) ==
    [k \in DOMAIN cache \cup {cache_key} |->
        IF k # cache_key THEN cache[k]
        ELSE IF k \in DOMAIN cache
             THEN [coordinates |-> response.coordinates,
                   recordId |-> cache[k].recordId]
             ELSE response]

\* line 99: tsne_cache[cache_key] = response
Store(cache, cache_key, response) ==
    [k \in DOMAIN cache \cup {cache_key} |->
        IF k = cache_key THEN response ELSE cache[k]]

NoCall == [X |-> <<>>, perplexity |-> 0]

\* what one call does: the response, the cache it leaves, and what it invoked
Done(status, body, cache, hit, loaded, call) ==
    [status |-> status, body |-> body, cache |-> cache, hit |-> hit,
     loaded |-> loaded, projected |-> call # NoCall, call |-> call]

\* mutant of Fail500: the error body is cached like a result
Fail500Cached(exc, cache, loaded, call) ==
    [status |-> 500, body |-> [error |-> exc],
     cache |-> [k \in DOMAIN cache \cup {"error"} |->
                   IF k = "error" THEN [error |-> exc] ELSE cache[k]],
     hit |-> FALSE, loaded |-> loaded, projected |-> call # [X |-> <<>>, perplexity |-> 0],
     call |-> call]

\* lines 103-107: except Exception as e -> {'error': str(e)}, 500
Fail500(exc, cache, loaded, call) ==
    Done(500, [error |-> exc], cache, FALSE, loaded, call)

\* lines 92-101: the response is built, cached and returned, unless the
\* projection raised
Publish(record_id, cache_key, cache, call, tsne) ==
    IF tsne.exc # "none" THEN Fail500(tsne.exc, cache, TRUE, call)
    ELSE Done(200, Response(tsne.coordinates, record_id),
              Store(cache, cache_key, Response(tsne.coordinates, record_id)),
              FALSE, TRUE, call)

\* lines 81-90: the projection of the (sampled) matrix X_np
Project(record_id, cache_key, cache, X_np) ==
    Publish(record_id, cache_key, cache,
            [X |-> X_np, perplexity |-> Perplexity(X_np)],
            fit_transform(X_np, Perplexity(X_np)))

\* lines 37-79: a is the outcome of the assembly
Build(record_id, cache_key, cache, a, drawn) ==
    IF a.exc # "none" THEN Fail500(a.exc, cache, TRUE, NoCall)
    ELSE Project(record_id, cache_key, cache, Sample(a.X_np, drawn))

\* lines 26-35: features and dataset are fetched; an empty dataset is a 404
Miss(city, target_record, cache_key, cache, features, city_data, drawn) ==
    IF Len(city_data) = 0
    THEN Done(404, [error |-> "No data available for " \o city], cache,
              FALSE, TRUE, NoCall)
    ELSE Build(RecordId(target_record), cache_key, cache,
               Assemble(target_record, city_data, features), drawn)

\* lines 20-24: the cache is looked up
Lookup(city, target_record, cache_key, cache, dsk, drawn) ==
    IF cache_key \in DOMAIN cache
    THEN Done(200, cache[cache_key], cache, TRUE, FALSE, NoCall)
    ELSE Miss(city, target_record, cache_key, cache,
              get_important_features(city), load_city_data(city, dsk), drawn)

\* The whole handler for one request; drawn is the draw of line 77 (unused
\* when the sampling step is skipped).
GenerateTsne(city, data, cache, dsk, drawn) ==
    IF "targetRecord" \notin DOMAIN data
    THEN \* line 18: None.get raises AttributeError
         Fail500("AttributeError", cache, FALSE, NoCall)
    ELSE Lookup(city, data.targetRecord,
                CacheKey(city, RecordId(data.targetRecord)), cache, dsk, drawn)

\* whether this request gets as far as line 74 with a matrix (no missing
\* target, no cache hit, no empty dataset, no escaping exception)
ReachesSampling(city, data, cache, dsk) ==
    /\ "targetRecord" \in DOMAIN data
    /\ CacheKey(city, RecordId(data.targetRecord)) \notin DOMAIN cache
    /\ Len(load_city_data(city, dsk)) # 0
    /\ Assemble(data.targetRecord, load_city_data(city, dsk),
                get_important_features(city)).exc = "none"

\* the draws open to line 77 for this request (one empty draw when the
\* request never reaches the sampling step or skips it)
DrawsFor(city, data, cache, dsk) ==
    IF ReachesSampling(city, data, cache, dsk)
    THEN Draws(Assemble(data.targetRecord, load_city_data(city, dsk),
                        get_important_features(city)).X_np)
    ELSE {<<>>}

----------------------------------------------------------------------------
(* The data on disk and the requests of the model.                         *)

\* row k of a reference file as pandas hands it over: an int column, a float
\* column, a float column with empty cells (NaN) and an object column
RefRow(k) ==
    [PTR_SEQUENCE_NUM |-> JInt(100 + k),
     CREAT_DON        |-> JFloat(10 * k),
     KDPI             |-> IF k % 2 = 0 THEN JNaN ELSE JFloat(5),
     AGE_DON          |-> IF k = 2 THEN JStr("abc") ELSE JStr("55")]

Rows(n) == [k \in 1..n |-> RefRow(k)]

\* a file state: -2 no such file, -1 a file pandas cannot parse, n >= 0 a
\* file of n rows
FileOf(st) == [ok |-> st >= 0, rows |-> IF st >= 0 THEN Rows(st) ELSE <<>>]

MkDisk(balt, la) ==
    LET files == [f \in {"data/baltimore_reference.csv", "data/la_reference.csv",
                         "data/boston_reference.csv"} |->
                     CASE f = "data/baltimore_reference.csv" -> balt
                       [] f = "data/la_reference.csv" -> la
                       [] OTHER -> 1]
    IN [f \in {g \in DOMAIN files : files[g] # -2} |-> FileOf(files[f])]

\* Baltimore's file varies below the cap; LA's file goes past the cap
Disks ==
    {MkDisk(b, 1) : b \in {-2, -1, 0, 1, max_points - 1}}
        \cup {MkDisk(1, n) : n \in 0..MaxRows}

Cities == {"Baltimore", "LA", "Baltimore_x"}

RecordIds == {JInt(1), JStr("1"), JStr("x_1")}

Target(idset, creatset) ==
    {[PTR_SEQUENCE_NUM |-> i, CREAT_DON |-> c] : i \in idset, c \in creatset}
        \cup {[PTR_SEQUENCE_NUM |-> i] : i \in idset}

\* request bodies: no targetRecord; a record without an identifier; records
\* whose identifiers collide as text; the same identifier with other fields
Bodies(city) ==
    IF city = "LA"
    THEN {[targetRecord |-> t] : t \in Target({JInt(1)}, {})}
    ELSE {<<>>}
         \cup {[targetRecord |-> [CREAT_DON |-> JStr("1.2")]]}
         \cup {[targetRecord |-> t] : t \in Target(RecordIds, {})}
         \cup {[targetRecord |-> t] : t \in Target({JInt(1)}, {JStr("1.2")})}

NoRequest ==
    [city |-> "", data |-> <<>>, status |-> 0, body |-> <<>>, hit |-> FALSE,
     loaded |-> FALSE, projected |-> FALSE, call |-> NoCall, stored |-> FALSE]

\* the pair a request is for
Pair(city, data) == <<city, RecordId(data.targetRecord)>>

\* history: keep the first 200 body of every (city, record id)
Remember(hist, city, data, body) ==
    [p \in DOMAIN hist \cup {Pair(city, data)} |->
        IF p \in DOMAIN hist THEN hist[p] ELSE body]

Init ==
    /\ disk \in Disks
    /\ tsne_cache = <<>>
    /\ last = NoRequest
    /\ succeeded = <<>>
    /\ asm = <<>> /\ smp = <<>> /\ ref = <<>> /\ thr = <<>> /\ wlog = <<>>

\* the effect of a request that the handler answered with outcome d
Answer(city, data, d) ==
        /\ tsne_cache' = d.cache
        /\ last' = [city |-> city, data |-> data, status |-> d.status,
                    body |-> d.body, hit |-> d.hit, loaded |-> d.loaded,
                    projected |-> d.projected, call |-> d.call,
                    stored |-> d.cache # tsne_cache]
        /\ succeeded' = IF d.status = 200 THEN Remember(succeeded, city, data, d.body)
                        ELSE succeeded
        /\ UNCHANGED <<disk, asm, smp, ref, thr, wlog>>

\* POST /api/tsne/<city> with body data, handled from start to end
Request(city, data) ==
    \E drawn \in DrawsFor(city, data, tsne_cache, disk) :
        Answer(city, data, GenerateTsne(city, data, tsne_cache, disk, drawn))

Next == \E city \in Cities : \E data \in Bodies(city) : Request(city, data)

Spec == Init /\ [][Next]_vars

----------------------------------------------------------------------------
(* Claims about generate_tsne, one request at a time (Spec).               *)

Answered == last.status # 0
HasTarget == "targetRecord" \in DOMAIN last.data
LastKey == CacheKey(last.city, RecordId(last.data.targetRecord))

\* the row of the matrix that the target record of a request becomes
TargetVector(city, target_record) ==
    nan_to_num(NpArray(
        <<Values(FeatureLoop(target_record, get_important_features(city)))>>))[1]

\* C1: once a request for (city, record id) has been answered with 200, every
\* later request for the same city and record id is answered with 200 and the
\* stored body (the one the first answer carried, which is the cache entry),
\* without loading the dataset, without running the projection and without
\* touching the cache.
C1_RepeatServedFromCache ==
    [][(/\ "targetRecord" \in DOMAIN last'.data
        /\ Pair(last'.city, last'.data) \in DOMAIN succeeded)
       => (/\ last'.status = 200
           /\ last'.hit
           /\ last'.body = succeeded[Pair(last'.city, last'.data)]
           /\ last'.body =
                 tsne_cache[CacheKey(last'.city, RecordId(last'.data.targetRecord))]
           /\ ~last'.projected
           /\ ~last'.loaded
           /\ tsne_cache' = tsne_cache)]_vars

\* C1 witness: a request served from the cache while the cache holds other
\* entries as well
C1_Witness ==
    /\ last.status = 200 /\ last.hit
    /\ Cardinality(DOMAIN tsne_cache) >= 2
    /\ Pair(last.city, last.data) \in DOMAIN succeeded

\* C2 as claimed: in every state, the first coordinate of a 200 answer for a
\* known city is the image of the feature vector of the target record sent
\* with that very request.
C2_FirstIsThisTarget ==
    (last.status = 200 /\ last.city \in DOMAIN feature_map)
        => last.body.coordinates[1] =
              [image_of |-> TargetVector(last.city, last.data.targetRecord)]

\* C2 amended: a 200 answer computed by the request itself (a cache miss) has
\* the target's vector as row 0 of the matrix handed to the projection, before
\* and after sampling, and its coordinates are index-aligned with that matrix;
\* an answer served from the cache is the stored entry, and the first
\* coordinate of every stored entry is the image of the target vector of a
\* request with that cache key.
C2_FirstIsComputingTarget ==
    /\ (last.status = 200 /\ ~last.hit /\ last.city \in DOMAIN feature_map)
          => /\ At(last.call.X, 0) = TargetVector(last.city, last.data.targetRecord)
             /\ Len(last.body.coordinates) = Len(last.call.X)
             /\ \A i \in 1..Len(last.call.X) :
                   last.body.coordinates[i] = [image_of |-> last.call.X[i]]
    /\ (last.status = 200 /\ last.hit) => last.body = tsne_cache[LastKey]
    /\ \A k \in DOMAIN tsne_cache :
          \E city \in DOMAIN feature_map : \E data \in Bodies(city) :
             /\ "targetRecord" \in DOMAIN data
             /\ CacheKey(city, RecordId(data.targetRecord)) = k
             /\ tsne_cache[k].coordinates[1] =
                   [image_of |-> TargetVector(city, data.targetRecord)]

\* C2 witness: a computed answer for which the sampling step reduced the matrix
C2_Witness ==
    /\ last.status = 200 /\ ~last.hit
    /\ Len(load_city_data(last.city, disk)) + 1 > max_points
    /\ Len(last.body.coordinates) = max_points

\* C5 as claimed: a request for a city that is not configured, carrying a
\* targetRecord, is answered 404 and the projection is not run.
C5_UnknownCity404 ==
    (Answered /\ HasTarget /\ last.city \notin DOMAIN feature_map)
        => (last.status = 404 /\ ~last.projected)

\* C7 as claimed: the recordId of a 200 answer is the identifier of the record
\* sent with that request (same value, same type; a missing identifier is
\* echoed as the default).
C7_RecordIdEchoed ==
    (last.status = 200) => last.body.recordId = RecordId(last.data.targetRecord)

\* The step of C9: the cache changes only when a request that missed
\* completes its projection with 200, and then exactly the entry of that
\* request's key is set to the 200 body; a hit, a 404 and a 500 leave it
\* alone; no entry is removed; it never holds an error body or a body without
\* coordinates.
C9_Step ==
       /\ DOMAIN tsne_cache \subseteq DOMAIN tsne_cache'
       /\ (tsne_cache' # tsne_cache)
             => /\ last'.status = 200 /\ ~last'.hit /\ last'.projected
                /\ LET k == CacheKey(last'.city, RecordId(last'.data.targetRecord))
                   IN /\ k \notin DOMAIN tsne_cache
                      /\ DOMAIN tsne_cache' = DOMAIN tsne_cache \cup {k}
                      /\ tsne_cache'[k] = last'.body
                      /\ \A j \in DOMAIN tsne_cache : tsne_cache'[j] = tsne_cache[j]
       /\ (last'.hit \/ last'.status \in {404, 500}) => tsne_cache' = tsne_cache
       /\ \A k \in DOMAIN tsne_cache' :
             /\ DOMAIN tsne_cache'[k] = {"coordinates", "recordId"}
             /\ Len(tsne_cache'[k].coordinates) >= 2

C10_ProjectionInput ==
    last.projected
        => /\ 2 <= Len(last.call.X) /\ Len(last.call.X) <= max_points
           /\ last.call.perplexity = Min(perplexity_cap, Len(last.call.X) - 1)
           /\ 1 <= last.call.perplexity
           /\ last.call.perplexity < Len(last.call.X)

\* C10 witness: a projection on a matrix at the cap, with the perplexity capped
C10_Witness ==
    /\ last.projected
    /\ Len(last.call.X) = max_points
    /\ last.call.perplexity = perplexity_cap
    /\ perplexity_cap < Len(last.call.X) - 1

----------------------------------------------------------------------------
(* The sampling step on its own (SpecSample): lines 72-79 applied to every *)
(* matrix of 2 .. max_points + 2 rows.                                     *)

\* a matrix whose row i carries its own index i in column 0 (like a sequence
\* number) and one more feature
SampleInputs ==
    UNION {{[i \in 1..n |-> <<JFloat(i - 1), JFloat(b[i])>>] : b \in [1..n -> {0, 7}]} :
              n \in 2..(max_points + 2)}

\* the index a row had in the matrix before sampling
Orig(row) == row[1].n

InitSample ==
    /\ smp \in {[X |-> X, out |-> <<>>, done |-> FALSE] : X \in SampleInputs}
    /\ disk = <<>> /\ tsne_cache = <<>> /\ last = NoRequest /\ succeeded = <<>>
    /\ asm = <<>> /\ ref = <<>> /\ thr = <<>> /\ wlog = <<>>

SamplingStep ==
    /\ ~smp.done
    /\ \E drawn \in Draws(smp.X) :
          smp' = [X |-> smp.X, out |-> Sample(smp.X, drawn), done |-> TRUE]
    /\ UNCHANGED <<disk, tsne_cache, last, succeeded, asm, ref, thr, wlog>>

NextSample == SamplingStep

SpecSample == InitSample /\ [][NextSample]_vars

\* C3: the sampling step yields min(cap, totalRows) rows; at or below the cap
\* the matrix is unchanged; above it the output is row 0 followed by cap - 1
\* rows of pairwise distinct indices taken from 1..totalRows-1, each unchanged.
C3_SamplingShape ==
    smp.done =>
        LET n == Len(smp.X)
            out == smp.out
        IN /\ Len(out) = Min(max_points, n)
           /\ (n <= max_points) => out = smp.X
           /\ (n > max_points) =>
                 /\ out[1] = At(smp.X, 0)
                 /\ \A i \in 2..Len(out) :
                       /\ Orig(out[i]) \in 1..(n - 1)
                       /\ out[i] = At(smp.X, Orig(out[i]))
                 /\ \A i, j \in 1..Len(out) :
                       i # j => Orig(out[i]) # Orig(out[j])

\* C3 witness: a matrix two rows past the cap, cut down to the cap
C3_Witness ==
    /\ smp.done
    /\ Len(smp.X) = max_points + 2
    /\ Len(smp.out) = max_points
    /\ Orig(smp.out[2]) > Orig(smp.out[3])

----------------------------------------------------------------------------
(* Matrix assembly on its own (SpecAssemble): lines 39-70 applied to       *)
(* target records with every kind of field value.                          *)

FieldValues ==
    {JNull, JList, JStr("abc"), JStr("1.2"), JStr("nan"), JStr("1e999"),
     JInt(55), JBigInt, JFloat(12), JNaN, JInf}

\* target records with CREAT_DON and AGE_DON each missing or of any kind
AssembleTargets ==
    {[PTR_SEQUENCE_NUM |-> JInt(1)]}
       \cup {[PTR_SEQUENCE_NUM |-> JInt(1), CREAT_DON |-> c] : c \in FieldValues}
       \cup {[PTR_SEQUENCE_NUM |-> JInt(1), AGE_DON |-> a] : a \in FieldValues}
       \cup {[PTR_SEQUENCE_NUM |-> JInt(1), CREAT_DON |-> c, AGE_DON |-> a] :
                c \in FieldValues, a \in FieldValues}

InitAssemble ==
    /\ asm \in {[city |-> "Baltimore", target_record |-> t, city_data |-> Rows(2),
                 out |-> [exc |-> "none", X_np |-> <<>>], done |-> FALSE] :
                    t \in AssembleTargets}
    /\ disk = <<>> /\ tsne_cache = <<>> /\ last = NoRequest /\ succeeded = <<>>
    /\ smp = <<>> /\ ref = <<>> /\ thr = <<>> /\ wlog = <<>>

AssembleStep ==
    /\ ~asm.done
    /\ asm' = [asm EXCEPT !.done = TRUE,
                          !.out = Assemble(asm.target_record, asm.city_data,
                                           get_important_features(asm.city))]
    /\ UNCHANGED <<disk, tsne_cache, last, succeeded, smp, ref, thr, wlog>>

NextAssemble == AssembleStep

SpecAssemble == InitAssemble /\ [][NextAssemble]_vars

\* a value float() cannot convert
Unparsable(v) ==
    \/ v.t \in {"null", "list"}
    \/ v.t = "str" /\ ParseFloat(v.s).exc # "none"

\* C4 as claimed: whatever the field values, assembly raises nothing and every
\* row is a vector of len(featureList) finite numbers in feature-list order,
\* with a missing or unparsable field at 0.
C4_AssemblyTotal ==
    asm.done =>
        LET features == get_important_features(asm.city) IN
        /\ asm.out.exc = "none"
        /\ Len(asm.out.X_np) = Len(asm.city_data) + 1
        /\ \A r \in 1..Len(asm.out.X_np) :
              /\ Len(asm.out.X_np[r]) = Len(features)
              /\ \A i \in 1..Len(features) : IsFinite(asm.out.X_np[r][i])
        /\ \A i \in 1..Len(features) :
              (\/ features[i] \notin DOMAIN asm.target_record
               \/ Unparsable(asm.target_record[features[i]]))
                 => asm.out.X_np[1][i] = JFloat(0)

----------------------------------------------------------------------------
(* reference_data.get_reference_data, reference_data.py:11-67.             *)
(* The handler looks into the characters of the names, so here a name is a *)
(* sequence of one-character strings.                                      *)

UpperCase == <<"A", "B", "C", "D", "E", "F", "G", "H", "I", "J", "K", "L", "M", "N", "O", "P", "Q", "R", "S", "T", "U", "V", "W", "X", "Y", "Z">>
LowerCase == <<"a", "b", "c", "d", "e", "f", "g", "h", "i", "j", "k", "l", "m", "n", "o", "p", "q", "r", "s", "t", "u", "v", "w", "x", "y", "z">>

LowerChar(c) ==
    IF \E k \in 1..Len(UpperCase) : UpperCase[k] = c
    THEN LowerCase[CHOOSE k \in 1..Len(UpperCase) : UpperCase[k] = c]
    ELSE c

\* str.lower()
lower(x) == [i \in 1..Len(x) |-> LowerChar(x[i])]

\* sub in x
Contains(sub, x) ==
    \E i \in 0..(Len(x) - Len(sub)) : SubSeq(x, i + 1, i + Len(sub)) = sub

\* x.endswith(suffix)
EndsWith(x, suffix) ==
    /\ Len(suffix) <= Len(x)
    /\ SubSeq(x, Len(x) - Len(suffix) + 1, Len(x)) = suffix

tBaltimore == <<"B", "a", "l", "t", "i", "m", "o", "r", "e">>
tBoston == <<"B", "o", "s", "t", "o", "n">>
tLA == <<"L", "A">>
tAtlantis == <<"A", "t", "l", "a", "n", "t", "i", "s">>
dotCsv == <<".", "c", "s", "v">>

fBaltimore == <<"b", "a", "l", "t", "i", "m", "o", "r", "e", "_", "r", "e", "f", "e", "r", "e", "n", "c", "e", ".", "c", "s", "v">>
fBoston == <<"b", "o", "s", "t", "o", "n", "_", "r", "e", "f", "e", "r", "e", "n", "c", "e", ".", "c", "s", "v">>
fLA == <<"l", "a", "_", "r", "e", "f", "e", "r", "e", "n", "c", "e", ".", "c", "s", "v">>
fBoston2020 == <<"B", "o", "s", "t", "o", "n", "_", "2", "0", "2", "0", ".", "C", "S", "V">>
fSalad == <<"s", "a", "l", "a", "d", ".", "c", "s", "v">>
fAtlantisTxt == <<"a", "t", "l", "a", "n", "t", "i", "s", ".", "t", "x", "t">>

\* lines 14-18
file_mapping ==
    [c \in {tBaltimore, tBoston, tLA} |->
        CASE c = tBaltimore -> fBaltimore
          [] c = tBoston -> fBoston
          [] OTHER -> fLA]

\* None, as a file name
NoName == <<>>

\* line 37: the files the fallback loop accepts for the city
Matches(city, files) ==
    {f \in files : Contains(lower(city), lower(f)) /\ EndsWith(lower(f), dotCsv)}

\* lines 34-40: the mapped name, unless it is missing from the listing and
\* the loop finds a match (first is the match the listing order puts first)
Fallback(file_name, files, matches, first) ==
    IF (file_name = NoName \/ file_name \notin files) /\ matches # {}
    THEN first
    ELSE file_name

ResolvedName(city, files, first) ==
    Fallback(Get(file_mapping, city, NoName), files, Matches(city, files), first)

\* the matches the listing order can put first (a single placeholder when
\* there is none)
FirstMatches(city, files) ==
    IF Matches(city, files) = {} THEN {NoName} ELSE Matches(city, files)

ListingError == "Error listing files"
NotFoundError == "Reference data file not found"
ReadError == "Failed to read reference data"

\* lines 42-67 for the name the lookup ended with
ReadFile(file_name, files, bad) ==
    IF file_name = NoName
    THEN [status |-> 404, error |-> NotFoundError, file_name |-> NoName]
    ELSE IF file_name \notin files \/ file_name \in bad
    THEN \* pd.read_csv raises: no such file, or a file it cannot parse
         [status |-> 500, error |-> ReadError, file_name |-> file_name]
    ELSE [status |-> 200, error |-> "", file_name |-> file_name]

\* the whole handler: dir_ok says whether os.listdir succeeds, bad holds the
\* files pandas cannot parse
get_reference_data(city, dir_ok, files, bad, first) ==
    IF ~dir_ok
    THEN [status |-> 500, error |-> ListingError, file_name |-> NoName]
    ELSE ReadFile(ResolvedName(city, files, first), files, bad)

RefFiles == {fBaltimore, fLA, fBoston2020, fSalad, fAtlantisTxt}

RefCities == {tBaltimore, tBoston, tLA, tAtlantis}

RefDirs ==
    {[dir_ok |-> FALSE, files |-> {}, bad |-> {}]}
       \cup {[dir_ok |-> TRUE, files |-> fs, bad |-> {}] : fs \in SUBSET RefFiles}
       \cup {[dir_ok |-> TRUE, files |-> fs, bad |-> {b}] :
                fs \in SUBSET RefFiles, b \in {fBaltimore, fBoston2020}}

InitRef ==
    /\ ref \in {[dir |-> d, city |-> NoName, status |-> 0, error |-> "",
                 file_name |-> NoName] : d \in {e \in RefDirs : e.bad \subseteq e.files}}
    /\ disk = <<>> /\ tsne_cache = <<>> /\ last = NoRequest /\ succeeded = <<>>
    /\ asm = <<>> /\ smp = <<>> /\ thr = <<>> /\ wlog = <<>>

\* the request and the answer r it got, as the model keeps them
Served(city, r) ==
    [dir |-> ref.dir, city |-> city, status |-> r.status, error |-> r.error,
     file_name |-> r.file_name]

\* GET /api/reference-data/<city>
GetReferenceData(city) ==
    /\ \E first \in FirstMatches(city, ref.dir.files) :
          ref' = Served(city, get_reference_data(city, ref.dir.dir_ok,
                                  ref.dir.files, ref.dir.bad, first))
    /\ UNCHANGED <<disk, tsne_cache, last, succeeded, asm, smp, thr, wlog>>

NextRef == \E city \in RefCities : GetReferenceData(city)

SpecRef == InitRef /\ [][NextRef]_vars

\* a file resolves for the city: its mapped file is in the directory, or some
\* .csv file there contains the city name, case-insensitively
Resolves(city, files) ==
    \/ city \in DOMAIN file_mapping /\ file_mapping[city] \in files
    \/ \E f \in files : Contains(lower(city), lower(f)) /\ EndsWith(lower(f), dotCsv)

\* C6 as claimed: when the directory can be listed and no file resolves for
\* the city, mapped or not, the answer is 404 "Reference data file not found";
\* 500 is answered only when the listing fails or when reading a file that is
\* in the directory fails.
C6_NoFileIs404 ==
    (ref.status # 0) =>
        /\ (ref.dir.dir_ok /\ ~Resolves(ref.city, ref.dir.files))
              => (ref.status = 404 /\ ref.error = NotFoundError)
        /\ (ref.status = 500)
              => (~ref.dir.dir_ok \/ ref.file_name \in ref.dir.files)

----------------------------------------------------------------------------
(* generate_tsne under concurrent requests (SpecConc).  Every thread       *)
(* handles one request; the steps are the places where the handler reads   *)
(* or writes the shared tsne_cache (lines 22, 24 and 99), each of them one *)
(* dict operation.                                                         *)

Threads == 1..NThreads

ConcRequests ==
    {<<"Baltimore", [targetRecord |-> [PTR_SEQUENCE_NUM |-> JInt(1)]]>>,
     <<"Baltimore", [targetRecord |-> [PTR_SEQUENCE_NUM |-> JStr("1")]]>>,
     <<"LA", [targetRecord |-> [PTR_SEQUENCE_NUM |-> JInt(1)]]>>,
     <<"Baltimore_x", [targetRecord |-> [PTR_SEQUENCE_NUM |-> JInt(1)]]>>,
     <<"Baltimore", <<>>>>}

NoResult == [status |-> 0, body |-> <<>>]

IdleThread ==
    [pc |-> "idle", city |-> "", data |-> <<>>, cache_key |-> "",
     response |-> <<>>, result |-> NoResult]

InitConc ==
    /\ disk \in {MkDisk(1, 1), MkDisk(2, 1), MkDisk(-2, 2)}
    /\ tsne_cache = <<>>
    /\ thr = [t \in Threads |-> IdleThread]
    /\ wlog = <<>>
    /\ last = NoRequest /\ succeeded = <<>>
    /\ asm = <<>> /\ smp = <<>> /\ ref = <<>>

ConcFrame == UNCHANGED <<disk, last, succeeded, asm, smp, ref>>

\* lines 16-21: the request arrives, the key is formed
Begin(t, city, data) ==
    /\ thr[t].pc = "idle"
    /\ thr' = [thr EXCEPT ![t] =
          IF "targetRecord" \notin DOMAIN data
          THEN [IdleThread EXCEPT !.pc = "done", !.city = city, !.data = data,
                    !.result = [status |-> 500, body |-> [error |-> "AttributeError"]]]
          ELSE [IdleThread EXCEPT !.pc = "check", !.city = city, !.data = data,
                    !.cache_key = CacheKey(city, RecordId(data.targetRecord))]]
    /\ UNCHANGED <<tsne_cache, wlog>> /\ ConcFrame

\* line 22: if cache_key in tsne_cache
Check(t) ==
    /\ thr[t].pc = "check"
    /\ thr' = [thr EXCEPT ![t].pc =
                  IF thr[t].cache_key \in DOMAIN tsne_cache THEN "hit" ELSE "miss"]
    /\ UNCHANGED <<tsne_cache, wlog>> /\ ConcFrame

\* line 24: return jsonify(tsne_cache[cache_key])
ReadHit(t) ==
    /\ thr[t].pc = "hit"
    /\ thr' = [thr EXCEPT ![t].pc = "done",
                          ![t].result = [status |-> 200,
                                         body |-> tsne_cache[thr[t].cache_key]]]
    /\ UNCHANGED <<tsne_cache, wlog>> /\ ConcFrame

\* the thread keeps the response it built, or returns the error
Computed(t, d) ==
    thr' = [thr EXCEPT ![t] =
              IF d.status = 200
              THEN [thr[t] EXCEPT !.pc = "store", !.response = d.body]
              ELSE [thr[t] EXCEPT !.pc = "done",
                        !.result = [status |-> d.status, body |-> d.body]]]

\* lines 26-96: the thread computes on its own data; an empty cache stands
\* for the miss it has already seen, the shared cache is not read
Compute(t) ==
    /\ thr[t].pc = "miss"
    /\ \E drawn \in DrawsFor(thr[t].city, thr[t].data, <<>>, disk) :
          Computed(t, GenerateTsne(thr[t].city, thr[t].data, <<>>, disk, drawn))
    /\ UNCHANGED <<tsne_cache, wlog>> /\ ConcFrame

\* lines 99-101: tsne_cache[cache_key] = response; return jsonify(response)
StoreAndReturn(t) ==
    /\ thr[t].pc = "store"
    /\ tsne_cache' = Store(tsne_cache, thr[t].cache_key, thr[t].response)
    /\ wlog' = Append(wlog, [key |-> thr[t].cache_key, response |-> thr[t].response])
    /\ thr' = [thr EXCEPT ![t].pc = "done",
                          ![t].result = [status |-> 200, body |-> thr[t].response]]
    /\ ConcFrame

NextConc ==
    \E t \in Threads :
        \/ \E r \in ConcRequests : Begin(t, r[1], r[2])
        \/ Check(t)
        \/ ReadHit(t)
        \/ Compute(t)
        \/ StoreAndReturn(t)

SpecConc == InitConc /\ [][NextConc]_vars

\* a thread has computed a response of its own for key k
ComputedBy(t, k) == thr[t].cache_key = k /\ thr[t].response # <<>>

\* the write to key k that wlog has last
LastWrite(k) ==
    wlog[CHOOSE i \in 1..Len(wlog) :
            /\ wlog[i].key = k
            /\ \A j \in (i + 1)..Len(wlog) : wlog[j].key # k].response

AllDone == \A t \in Threads : thr[t].pc = "done"

\* C8: under every interleaving, every value held under a key and every 200
\* body returned is the complete response (coordinates and recordId) that one
\* request computed for that key; the entry of a key is always the response
\* written to that key last (so it is at the end, and a write to one key
\* leaves every other entry alone).
C8_NoTornEntries ==
    /\ \A k \in DOMAIN tsne_cache :
          /\ \E t \in Threads : ComputedBy(t, k) /\ tsne_cache[k] = thr[t].response
          /\ \E i \in 1..Len(wlog) : wlog[i].key = k
          /\ tsne_cache[k] = LastWrite(k)
    /\ \A i \in 1..Len(wlog) : wlog[i].key \in DOMAIN tsne_cache
    /\ \A t \in Threads :
          thr[t].result.status = 200
             => /\ DOMAIN thr[t].result.body = {"coordinates", "recordId"}
                /\ \E u \in Threads :
                      /\ ComputedBy(u, thr[t].cache_key)
                      /\ thr[t].result.body = thr[u].response

\* C8 witness: all requests are finished, two of them missed the same key and
\* both computed and wrote it, with different responses
C8_Witness ==
    /\ AllDone
    /\ \E i, j \in 1..Len(wlog) :
          /\ i < j
          /\ wlog[i].key = wlog[j].key
          /\ wlog[i].response # wlog[j].response

=============================================================================
